---- MODULE Spec2Model ----
(***************************************************************************)
(* TradingView webhook service: the per-ticker indicator record kept in    *)
(* the SQLite table "securities", the upsert every variant of the webhook  *)
(* handler runs against it, and the Google Sheet mirror.                   *)
(*                                                                         *)
(* The repository holds several builds of main.go.  The model names them:  *)
(*   "signal"  ticker/signal/analystPriceTarget   (src/main.go 1-184)      *)
(*   "part001" the same with a float64 target and no check of the fields   *)
(*             (src/unnamed/part_001)                                      *)
(*   "multi"   ticker + list of indicator/signal  (src/main.go 185-456)    *)
(*   "int"     integer signals and momentum       (src/main.go 458-604)    *)
(*   "single"  one indicator per alert, no sheet  (src/unnamed/part_002    *)
(*             1-331)                                                      *)
(*   "sheet"   one indicator per alert + sheet    (src/unnamed/part_002    *)
(*             333-614)                                                    *)
(***************************************************************************)
EXTENDS Integers, Sequences, FiniteSets, TLC

VARIABLES variant, store, sheet, clock, resp, pre, log, req, started

vars == <<variant, store, sheet, clock, resp, pre, log, req, started>>

(***************************************************************************)
(* Bounds of the model.                                                    *)
(***************************************************************************)
\* The seconds the wall clock moves on.
MaxClock == 1
\* The POSTs that reach updateIndicator(s) in one run.
MaxRequests == 2

(***************************************************************************)
(* Inputs the model draws from.                                            *)
(***************************************************************************)
Tickers == {"AAPL", "MSFT"}
SeqTickers == {"AAPL"}
SignalInputs == {"buy", "sell"}
\* The goroutines of net/http that serve requests at the same time.
Procs == {1, 2}

Variants == {"signal", "part001", "multi", "int", "single"}

(***************************************************************************)
(* Schema: CREATE TABLE securities of each build.                          *)
(***************************************************************************)
allowedIndicators(v) ==
    CASE v = "multi" ->
           {"sma_strategy", "occ", "adaptive_supertrend", "range_filter_daily",
            "range_filter_weekly", "shinohara_intensity_ratio",
            "oscillator_daily", "oscillator_weekly", "oscillator_color"}
      [] v = "int" ->
           {"sma_strategy", "occ", "adaptive_supertrend", "range_filter",
            "pmax", "shinohara_intensity_ratio", "oscillators"}
      [] v = "single" ->
           {"sma_strategy", "occ", "adaptive_supertrend", "range_filter_daily",
            "range_filter_weekly", "shinohara_intensity_ratio",
            "oscillator_daily", "oscillator_weekly"}
      [] v = "sheet" ->
           {"sma_strategy", "occ", "adaptive_supertrend", "range_filter_daily",
            "range_filter_weekly", "pmax", "shinohara_intensity_ratio",
            "oscillators_daily_weekly", "monthly_oscillator"}
      [] OTHER -> {}

\* The columns of the table that hold a time.
TimestampColumns(v) == IF v = "int" THEN {} ELSE {"date_updated"}

\* The column every upsert stamps with the time of the write.
LastModifiedColumn == "date_updated"

\* The columns that hold a time other than that of the last write: the
\* CREATE TABLE of no build has one.
TransitionColumns(v) == TimestampColumns(v) \ {LastModifiedColumn}

\* The columns of the table that hold the value of an indicator or signal.
SignalBuilds == {"signal", "part001"}

IndicatorColumns(v) ==
    IF v \in SignalBuilds THEN {"signal"} ELSE allowedIndicators(v)

Columns(v) ==
    CASE v \in SignalBuilds -> {"signal", "analyst_price_target", "date_updated"}
      [] v = "int" -> allowedIndicators(v) \cup {"momentum"}
      [] OTHER -> allowedIndicators(v) \cup {"date_updated"}

(***************************************************************************)
(* SQL values.  A Go string parameter is bound as TEXT and is never NULL.  *)
(***************************************************************************)
SqlNull == "<NULL>"

COALESCE(a, b) == IF a = SqlNull THEN b ELSE a

\* sql.NullFloat64{} : the zero value stands for SQL NULL.
NullFloat == [Valid |-> FALSE, Float64 |-> 0]

(***************************************************************************)
(* NullableFloat64.UnmarshalJSON.  A JSON token is [kind, num]; the field  *)
(* missing from the payload ("absent") never reaches UnmarshalJSON and     *)
(* leaves the nil pointer of the zero value.  The kinds: null, the string  *)
(* "" (str_empty), the string "false" (str_false), the literal true        *)
(* (bool), a number.                                                       *)
(***************************************************************************)
AptTokens ==
    {[kind |-> "absent", num |-> 0], [kind |-> "null", num |-> 0],
     [kind |-> "str_empty", num |-> 0], [kind |-> "str_false", num |-> 0],
     [kind |-> "bool", num |-> 0], [kind |-> "number", num |-> 100],
     [kind |-> "number", num |-> 150]}

\* The tokens that are neither missing nor a JSON number.
NonNumericKinds == {"null", "str_empty", "str_false", "bool"}

UnmarshalJSON(tok) ==
    IF tok.kind = "null" \/ tok.kind = "str_empty" THEN NullFloat
    ELSE IF tok.kind = "number" THEN [Valid |-> TRUE, Float64 |-> tok.num]
    ELSE NullFloat

priceTargetOf(tok) ==
    IF tok.kind = "absent" THEN NullFloat ELSE UnmarshalJSON(tok)

\* src/unnamed/part_001 17 and 80: encoding/json decoding a token into a
\* float64 field.  A missing field and null leave 0, a number is stored, a
\* string or a boolean makes Decode fail.
float64Decodes(tok) == tok.kind \in {"absent", "null", "number"}

float64Of(tok) ==
    [Valid |-> TRUE, Float64 |-> IF tok.kind = "number" THEN tok.num ELSE 0]

(***************************************************************************)
(* The upsert statements.  Each takes the table, the parameters bound to   *)
(* the statement and the timestamp written, and gives the table after it.  *)
(***************************************************************************)
\* ticker is the PRIMARY KEY: the row of t is inserted, or on conflict
\* rewritten; the rows of the other tickers stay.
Put(s, t, rec) == [x \in (DOMAIN s) \cup {t} |-> IF x = t THEN rec ELSE s[x]]

\* Mutant of upsertSignal: an UPDATE in place of the upsert, a ticker that
\* has no record gets none.
upsertSignalUpdateOnly(s, t, sig, pt, now) ==
    IF t \in DOMAIN s
    THEN Put(s, t, [signal |-> sig, analyst_price_target |-> pt, date_updated |-> now])
    ELSE s

\* src/main.go 125-131: INSERT ... ON CONFLICT(ticker) DO UPDATE SET
\* signal, analyst_price_target, date_updated.
upsertSignal(s, t, sig, pt, now) ==
    Put(s, t, [signal |-> sig, analyst_price_target |-> pt, date_updated |-> now])

\* Mutant of signalValues: the loop ends at the first entry whose
\* indicator is not allowed (break in place of continue).
RECURSIVE signalValuesBreak(_, _)
signalValuesBreak(sigs, vals) ==
    IF sigs = <<>> THEN vals
    ELSE LET e == Head(sigs)
         IN  IF e.indicator \in allowedIndicators("multi")
             THEN signalValuesBreak(Tail(sigs), [vals EXCEPT ![e.indicator] = e.signal])
             ELSE vals

\* The values map of updateIndicators: every column starts at "", each
\* allowed entry of the list overwrites its column, later entries win.
RECURSIVE signalValues(_, _)
signalValues(sigs, vals) ==
    IF sigs = <<>> THEN vals
    ELSE LET e == Head(sigs)
         IN  IF e.indicator \in allowedIndicators("multi")
             THEN signalValues(Tail(sigs), [vals EXCEPT ![e.indicator] = e.signal])
             ELSE signalValues(Tail(sigs), vals)

defaultValues == [c \in allowedIndicators("multi") |-> ""]

\* src/main.go 339-363: every indicator column is bound to values[c];
\* on conflict each column becomes COALESCE(excluded.c, c).
upsertMulti(s, t, vals, now) ==
    IF t \in DOMAIN s
    THEN Put(s, t, [c \in Columns("multi") |->
                      IF c = "date_updated" THEN now
                      ELSE COALESCE(vals[c], s[t][c])])
    ELSE Put(s, t, [c \in Columns("multi") |->
                      IF c = "date_updated" THEN now ELSE vals[c]])

\* Mutant of upsertSingle: INSERT OR REPLACE, the row is written anew.
upsertSingleReplace(v, s, t, ind, sig, now) ==
    Put(s, t, [c \in Columns(v) |->
                 IF c = ind THEN sig
                 ELSE IF c = "date_updated" THEN now ELSE ""])

\* src/unnamed/part_002 154-159 and 500-505: INSERT (ticker, <ind>,
\* date_updated) ON CONFLICT DO UPDATE SET <ind> = ?, date_updated = ?.
upsertSingle(v, s, t, ind, sig, now) ==
    IF t \in DOMAIN s
    THEN Put(s, t, [s[t] EXCEPT ![ind] = sig, !["date_updated"] = now])
    ELSE Put(s, t, [c \in Columns(v) |->
                      IF c = ind THEN sig
                      ELSE IF c = "date_updated" THEN now ELSE ""])

\* Mutant of upsertInt: ON CONFLICT sets momentum to the signal.
upsertIntSet(s, t, ind, sig) ==
    IF t \in DOMAIN s
    THEN Put(s, t, [s[t] EXCEPT ![ind] = sig, !["momentum"] = sig])
    ELSE Put(s, t, [c \in Columns("int") |->
                      IF c = ind \/ c = "momentum" THEN sig ELSE 0])

\* src/main.go 545-552: INSERT (ticker, <ind>, momentum) ON CONFLICT DO
\* UPDATE SET <ind> = ?, momentum = momentum + ?.
upsertInt(s, t, ind, sig) ==
    IF t \in DOMAIN s
    THEN Put(s, t, [s[t] EXCEPT ![ind] = sig, !["momentum"] = @ + sig])
    ELSE Put(s, t, [c \in Columns("int") |->
                      IF c = ind \/ c = "momentum" THEN sig ELSE 0])

(***************************************************************************)
(* HTTP responses.                                                         *)
(***************************************************************************)
StatusOK == 200
StatusBadRequest == 400
StatusInternalServerError == 500

Response(code, body) == [code |-> code, body |-> body]

RespOK == Response(StatusOK, "Webhook processed successfully")
RespInvalidPayload == Response(StatusBadRequest, "Invalid payload")
RespMissing == Response(StatusBadRequest, "Missing ticker or signal")
RespDbFailed == Response(StatusInternalServerError, "Failed to update database")
RespInvalidIndicator ==
    Response(StatusInternalServerError, "Failed to update database: invalid indicator")
\* Mutant of RespSheetFailed: the body the handler gives a failed upsert.
RespSheetFailedAsDb ==
    Response(StatusInternalServerError, "Failed to update database")

RespSheetFailed ==
    Response(StatusInternalServerError, "Failed to update Google Sheet")
NoResponse == Response(0, "")

(***************************************************************************)
(* History kept for the statement of the properties: the last request      *)
(* handled and the last request merged before it, each with the record of  *)
(* its ticker before the statement, the time the handler took for the      *)
(* write (now), the number of the request in the order of arrival (id),    *)
(* whether it arrived while no other request was being served (quiet),     *)
(* and the whole table before the last statement.                          *)
(***************************************************************************)
NoRecord == <<>>

RecordOf(s, t) == IF t \in DOMAIN s THEN s[t] ELSE NoRecord

Entry(t, a, fault, merged, now, id, quiet) ==
    [ticker |-> t, alert |-> a, fault |-> fault, merged |-> merged,
     now |-> now, id |-> id, quiet |-> quiet,
     existed |-> t \in DOMAIN store, before |-> RecordOf(store, t)]

Push(l, e) ==
    IF l = <<>> THEN <<e>>
    ELSE IF l[Len(l)].merged THEN <<l[Len(l)], e>>
    ELSE IF Len(l) = 2 THEN <<l[1], e>>
    ELSE <<e>>

(***************************************************************************)
(* Inputs of the POST handlers.                                            *)
(***************************************************************************)
\* Alerts with both fields and any price target, alerts that change the
\* signal, and alerts that lack the ticker, the signal or both.
SignalAlerts ==
    [ticker : SeqTickers, signal : {"buy"}, apt : AptTokens]
    \cup [ticker : SeqTickers, signal : {"sell"},
          apt : {[kind |-> "absent", num |-> 0], [kind |-> "number", num |-> 100]}]
    \cup [ticker : SeqTickers \cup {""}, signal : {""}, apt : {[kind |-> "absent", num |-> 0]}]
    \cup [ticker : {""}, signal : {"buy"}, apt : {[kind |-> "number", num |-> 100]}]

\* The lists of a payload: one pair, two pairs with two allowed
\* indicators, and an unknown indicator followed by an allowed one.
SignalLists ==
    {<<[indicator |-> "occ", signal |-> "sell"]>>,
     <<[indicator |-> "sma_strategy", signal |-> "buy"],
       [indicator |-> "occ", signal |-> "sell"]>>,
     <<[indicator |-> "bogus", signal |-> "buy"],
       [indicator |-> "sma_strategy", signal |-> "buy"]>>}

MultiAlerts == [ticker : SeqTickers, signals : SignalLists]

\* Two indicators of the allow-list, one with both signals, an indicator
\* outside it, and an alert that has no ticker: the field is missing or "".
SingleAlerts ==
    [ticker : SeqTickers, indicator : {"sma_strategy"}, signal : SignalInputs]
    \cup {[ticker |-> t, indicator |-> "occ", signal |-> "sell"] : t \in SeqTickers}
    \cup {[ticker |-> t, indicator |-> "bogus", signal |-> "buy"] : t \in SeqTickers}
    \cup {[ticker |-> "", indicator |-> "sma_strategy", signal |-> "buy"]}

\* Signals 0 and 2 for one indicator, 1 for another and for an indicator
\* outside the allow-list.
IntAlerts ==
    [ticker : SeqTickers, indicator : {"sma_strategy"}, signal : {0, 2}]
    \cup [ticker : SeqTickers, indicator : {"occ", "bogus"}, signal : {1}]

(***************************************************************************)
(* The sheet: the rows from row 2 down, each [ticker, data].               *)
(***************************************************************************)
SheetRow(t, data) == [ticker |-> t, data |-> data]

\* Values.Update on the range of one row: row i (counted from row 2).
UpdateRow(sh, i, row) ==
    IF i <= Len(sh) THEN [sh EXCEPT ![i] = row] ELSE Append(sh, row)

\* Values.Append with INSERT_ROWS: a new row after the last one.
AppendRow(sh, row) == Append(sh, row)

\* No transaction is open.
NoTx == [open |-> FALSE, table |-> <<>>]

\* A goroutine of net/http that serves no request.
IdleReq == [pc |-> "idle", alert |-> [ticker |-> ""], now |-> 0,
            rowData |-> [ticker |-> "", data |-> <<>>], rowIndex |-> -1,
            resp |-> [code |-> 0, body |-> ""], merged |-> FALSE,
            fault |-> "none", tx |-> NoTx, id |-> 0, quiet |-> TRUE]


\* The record of a request that has got as far as pc.
NoRowData == SheetRow("", NoRecord)

\* A goroutine serves no request, or has answered the one it served.
Free(p) == req[p].pc \in {"idle", "done"}

\* The record of the request with alert a that goroutine p takes at pc:
\* its number in the order of arrival, and whether no other request was
\* being served when it arrived.
Req(p, pc, a) ==
    [pc |-> pc, alert |-> a, now |-> clock, rowData |-> NoRowData, rowIndex |-> -1,
     resp |-> NoResponse, merged |-> FALSE, fault |-> "none", tx |-> NoTx,
     id |-> started + 1, quiet |-> \A q \in Procs \ {p} : Free(q)]

(***************************************************************************)
(* Init: the table as initDB leaves it on a fresh database, no request     *)
(* being served.                                                           *)
(***************************************************************************)
Init ==
    /\ variant \in Variants
    /\ store = <<>>
    /\ sheet = <<>>
    /\ clock = 0
    /\ resp = NoResponse
    /\ pre = <<>>
    /\ log = <<>>
    /\ req = [p \in Procs |-> IdleReq]
    /\ started = 0

\* The wall clock advances (CURRENT_TIMESTAMP and time.Now have one-second
\* resolution: two requests may see the same time).
Tick ==
    /\ clock < MaxClock
    /\ clock' = clock + 1
    /\ UNCHANGED <<variant, store, sheet, resp, pre, log, req, started>>

\* The statement of a request has run, or the request was turned away
\* before it: the table after it and the history entry of the request.
Recorded(e, newStore) ==
    /\ store' = newStore
    /\ pre' = store
    /\ log' = Push(log, e)

\* The history entry of the request r, whose statement ran with the given
\* outcome or was not run.
EntryOf(r, fault, merged) ==
    Entry(r.alert.ticker, r.alert, fault, merged, r.now, r.id, r.quiet)

\* What a handler that makes one call to the database leaves behind: the
\* table, the response, and the history entry of the request.
Handled(t, a, fault, merged, newStore, newSheet, response) ==
    /\ Recorded(Entry(t, a, fault, merged, clock, 0, TRUE), newStore)
    /\ sheet' = newSheet
    /\ resp' = response
    /\ UNCHANGED <<variant, clock, req, started>>

\* net/http hands a POST to a goroutine that serves no request (the
\* first such goroutine: which one it is makes no difference).
Accept(p) ==
    /\ Free(p)
    /\ \A q \in Procs : Free(q) => p <= q
    /\ started < MaxRequests
    /\ started' = started + 1

\* The goroutine of p writes its response and returns: what is left of
\* the request r is its alert, its response and how it went.
Respond(p, r, response, fault) ==
    /\ req' = [req EXCEPT ![p] = [r EXCEPT !.pc = "done", !.resp = response,
                                          !.fault = fault, !.now = 0,
                                          !.rowData = NoRowData, !.rowIndex = -1,
                                          !.tx = NoTx]]
    /\ resp' = response

\* No other request has written in a transaction it has not ended yet
\* (SQLite has one writer at a time).
NoOtherWriter(p) == \A q \in Procs \ {p} : ~req[q].tx.open

(***************************************************************************)
(* A POST whose body json.Decode rejects: every build answers 400 before   *)
(* it looks at the table.                                                  *)
(***************************************************************************)
NoAlert == [ticker |-> ""]

handleWebhookInvalidPayload ==
    Handled("", NoAlert, "decode", FALSE, store, sheet, RespInvalidPayload)

(***************************************************************************)
(* src/main.go 103-141: POST of the signal/price-target build.  The        *)
(* statement stamps date_updated with CURRENT_TIMESTAMP itself.            *)
(***************************************************************************)
handleWebhookSignal(a, fault) ==
    /\ variant = "signal"
    /\ IF a.ticker = "" \/ a.signal = ""
       THEN Handled(a.ticker, a, "invalid", FALSE, store, sheet, RespMissing)
       ELSE IF fault = "db"
       THEN Handled(a.ticker, a, fault, FALSE, store, sheet, RespDbFailed)
       ELSE Handled(a.ticker, a, fault, TRUE,
                    upsertSignal(store, a.ticker, a.signal, priceTargetOf(a.apt), clock),
                    sheet, RespOK)

(***************************************************************************)
(* src/unnamed/part_001 78-103: POST of the older signal build.  The       *)
(* fields are not checked and the price target is a float64.               *)
(***************************************************************************)
handleWebhookPart001(a, fault) ==
    /\ variant = "part001"
    /\ IF ~float64Decodes(a.apt)
       THEN Handled(a.ticker, a, "decode", FALSE, store, sheet, RespInvalidPayload)
       ELSE IF fault = "db"
       THEN Handled(a.ticker, a, fault, FALSE, store, sheet, RespDbFailed)
       ELSE Handled(a.ticker, a, fault, TRUE,
                    upsertSignal(store, a.ticker, a.signal, float64Of(a.apt), clock),
                    sheet, RespOK)

(***************************************************************************)
(* The transaction of updateIndicators: the table as committed and the     *)
(* table as the statement of the open transaction left it.                 *)
(***************************************************************************)
\* Mutant of Rollback: what the statement wrote stays in the table.
RollbackKeepsWrites(committed, pending) == pending

\* src/main.go 336: defer tx.Rollback() discards what the transaction wrote.
Rollback(committed, pending) == committed

\* src/main.go 409: tx.Commit() makes what the transaction wrote the table.
Commit(committed, pending) == pending

\* The outcomes of a call to the database: it succeeds or returns an error.
LocalFaults == {"none", "db"}

(***************************************************************************)
(* src/main.go 292-310 and updateIndicators 318-415: POST of the           *)
(* multi-signal build, a goroutine per request.  The request is at         *)
(* db.Begin, at tx.Exec or at tx.Commit.                                   *)
(***************************************************************************)
\* 292-298 and 331-387: the body is decoded, db.Begin opens the
\* transaction, the values are collected and time.Now() is read.
updateIndicatorsBegin(p, a, fault) ==
    /\ variant = "multi"
    /\ Accept(p)
    /\ IF fault = "db"
       THEN /\ Respond(p, Req(p, "done", a), RespDbFailed, "db")
            /\ Recorded(EntryOf(Req(p, "done", a), "db", FALSE), store)
       ELSE /\ req' = [req EXCEPT ![p] = Req(p, "exec", a)]
            /\ UNCHANGED <<store, resp, pre, log>>
    /\ UNCHANGED <<variant, sheet, clock>>

\* 391-406: tx.Exec of the upsert.  It waits while another transaction
\* has written; on an error the deferred Rollback runs.
updateIndicatorsExec(p, fault) ==
    /\ variant = "multi"
    /\ req[p].pc = "exec"
    /\ NoOtherWriter(p)
    /\ LET a == req[p].alert
           pending == upsertMulti(store, a.ticker,
                                  signalValues(a.signals, defaultValues), req[p].now)
       IN  IF fault = "db"
           THEN /\ Respond(p, req[p], RespDbFailed, "db")
                /\ Recorded(EntryOf(req[p], "db", FALSE), Rollback(store, store))
           ELSE /\ req' = [req EXCEPT ![p].pc = "commit",
                                      ![p].tx = [open |-> TRUE, table |-> pending]]
                /\ UNCHANGED <<store, resp, pre, log>>
    /\ UNCHANGED <<variant, sheet, clock, started>>

\* 409-414: tx.Commit, and on its error the deferred Rollback; then the
\* response of handleWebhook 300-309.
updateIndicatorsCommit(p, fault) ==
    /\ variant = "multi"
    /\ req[p].pc = "commit"
    /\ LET a == req[p].alert
           r == [req[p] EXCEPT !.tx = NoTx]
       IN  IF fault = "commit"
           THEN /\ Respond(p, r, RespDbFailed, "commit")
                /\ Recorded(EntryOf(req[p], "commit", FALSE),
                            Rollback(store, req[p].tx.table))
           ELSE /\ Respond(p, [r EXCEPT !.merged = TRUE], RespOK, "none")
                /\ Recorded(EntryOf(req[p], "none", TRUE),
                            Commit(store, req[p].tx.table))
    /\ UNCHANGED <<variant, sheet, clock, started>>

(***************************************************************************)
(* The builds with one indicator per alert of src/unnamed/part_002:        *)
(* "single" (handleWebhook 111-129, updateIndicator 136-178) and "sheet"   *)
(* (handleWebhook 448-473, updateIndicator 480-524, updateGoogleSheet      *)
(* 527-603).  net/http runs every request in its own goroutine; a request  *)
(* is at one of the handler's calls that reach the table, the clock or     *)
(* the sheet.                                                              *)
(***************************************************************************)
\* Mutant of updateIndicatorBegin: the indicator is not looked up in the
\* allow-list.
updateIndicatorBeginUnchecked(p, a) ==
    /\ variant \in {"single", "sheet"}
    /\ Accept(p)
    /\ req' = [req EXCEPT ![p] = Req(p, "exec", a)]
    /\ UNCHANGED <<variant, store, sheet, clock, resp, pre, log>>

\* The body is decoded, the indicator is looked up in the allow-list,
\* time.Now() is read.
updateIndicatorBegin(p, a) ==
    /\ variant \in {"single", "sheet"}
    /\ Accept(p)
    /\ IF a.indicator \notin allowedIndicators(variant)
       THEN /\ Respond(p, Req(p, "done", a),
                       RespInvalidIndicator, "invalid")
            /\ Recorded(EntryOf(Req(p, "done", a), "invalid", FALSE), store)
       ELSE /\ req' = [req EXCEPT ![p] = Req(p, "exec", a)]
            /\ UNCHANGED <<store, resp, pre, log>>
    /\ UNCHANGED <<variant, sheet, clock>>

\* Mutant of updateIndicatorExec: a plain INSERT, which fails on the
\* PRIMARY KEY when the ticker has a record.
updateIndicatorExecInsertOnly(p, fault) ==
    /\ variant \in {"single", "sheet"}
    /\ req[p].pc = "exec"
    /\ LET a == req[p].alert
       IN  IF fault = "db" \/ a.ticker \in DOMAIN store
           THEN /\ Respond(p, req[p], RespDbFailed, fault)
                /\ Recorded(EntryOf(req[p], fault, FALSE), store)
           ELSE /\ Recorded(EntryOf(req[p], "none", TRUE),
                            upsertSingle(variant, store, a.ticker, a.indicator,
                                         a.signal, req[p].now))
                /\ IF variant = "single"
                   THEN Respond(p, [req[p] EXCEPT !.merged = TRUE], RespOK, "none")
                   ELSE /\ req' = [req EXCEPT ![p].pc = "query", ![p].merged = TRUE]
                        /\ UNCHANGED resp
    /\ UNCHANGED <<variant, sheet, clock, started>>

\* Mutant of updateIndicatorExec: the error of db.Exec is dropped and the
\* handler goes on to the sheet.
updateIndicatorExecIgnoreError(p, fault) ==
    /\ variant \in {"single", "sheet"}
    /\ req[p].pc = "exec"
    /\ LET a == req[p].alert
       IN  IF fault = "db"
           THEN /\ Recorded(EntryOf(req[p], "db", FALSE), store)
                /\ req' = [req EXCEPT ![p].pc = "query"]
                /\ UNCHANGED resp
           ELSE /\ Recorded(EntryOf(req[p], "none", TRUE),
                            upsertSingle(variant, store, a.ticker, a.indicator,
                                         a.signal, req[p].now))
                /\ req' = [req EXCEPT ![p].pc = "query", ![p].merged = TRUE]
                /\ UNCHANGED resp
    /\ UNCHANGED <<variant, sheet, clock, started>>

\* Mutant of updateIndicatorExec: an UPDATE with no WHERE clause, the
\* indicator and date_updated of every record are written.
updateIndicatorExecAllRows(p, fault) ==
    /\ variant \in {"single", "sheet"}
    /\ req[p].pc = "exec"
    /\ LET a == req[p].alert
           one == upsertSingle(variant, store, a.ticker, a.indicator,
                               a.signal, req[p].now)
       IN  IF fault = "db"
           THEN /\ Respond(p, req[p], RespDbFailed, "db")
                /\ Recorded(EntryOf(req[p], "db", FALSE), store)
           ELSE /\ Recorded(EntryOf(req[p], "none", TRUE),
                            [t \in DOMAIN one |->
                                [one[t] EXCEPT ![a.indicator] = a.signal,
                                               !["date_updated"] = req[p].now]])
                /\ req' = [req EXCEPT ![p].pc = "query", ![p].merged = TRUE]
                /\ UNCHANGED resp
    /\ UNCHANGED <<variant, sheet, clock, started>>

\* db.Exec of the upsert with the time read before.  The single build
\* answers 200 after it, the sheet build goes on to updateGoogleSheet.
updateIndicatorExec(p, fault) ==
    /\ variant \in {"single", "sheet"}
    /\ req[p].pc = "exec"
    /\ LET a == req[p].alert
       IN  IF fault = "db"
           THEN /\ Respond(p, req[p], RespDbFailed, "db")
                /\ Recorded(EntryOf(req[p], "db", FALSE), store)
           ELSE /\ Recorded(EntryOf(req[p], "none", TRUE),
                            upsertSingle(variant, store, a.ticker, a.indicator,
                                         a.signal, req[p].now))
                /\ IF variant = "single"
                   THEN Respond(p, [req[p] EXCEPT !.merged = TRUE], RespOK, "none")
                   ELSE /\ req' = [req EXCEPT ![p].pc = "query", ![p].merged = TRUE]
                        /\ UNCHANGED resp
    /\ UNCHANGED <<variant, sheet, clock, started>>

\* updateGoogleSheet 527-539: the record of the ticker is read into rowData.
sheetQueryRow(p) ==
    /\ variant = "sheet"
    /\ req[p].pc = "query"
    /\ LET t == req[p].alert.ticker
       IN  IF t \in DOMAIN store
           THEN /\ req' = [req EXCEPT ![p].pc = "get",
                                      ![p].rowData = SheetRow(t, store[t])]
                /\ UNCHANGED resp
           ELSE Respond(p, req[p], RespSheetFailed, "sheet")
    /\ UNCHANGED <<variant, store, sheet, clock, pre, log, started>>

\* Values.Get of Sheet2!A2:A: one entry per row, the cell of column A of
\* that row; a row whose cell is empty comes back as an empty entry.
ValuesGet(sh) ==
    [i \in DOMAIN sh |-> IF sh[i].ticker = "" THEN <<>> ELSE <<sh[i].ticker>>]

\* The scan of column A: the first row that has a cell and whose cell
\* equals the ticker.
RECURSIVE findRow(_, _, _)
findRow(sh, t, i) ==
    IF i > Len(sh) THEN -1
    ELSE LET r == ValuesGet(sh)[i]
         IN  IF Len(r) > 0 /\ r[1] = t THEN i
             ELSE findRow(sh, t, i + 1)

\* Mutant of sheetGet: a failed sheet call puts the table back to what it
\* was before the last statement.
sheetGetUndo(p, fault) ==
    /\ variant = "sheet"
    /\ req[p].pc = "get"
    /\ IF fault = "sheet"
       THEN /\ Respond(p, req[p], RespSheetFailed, "sheet")
            /\ store' = pre
       ELSE /\ req' = [req EXCEPT ![p].pc = "write",
                                  ![p].rowIndex = findRow(sheet, req[p].alert.ticker, 1)]
            /\ UNCHANGED <<resp, store>>
    /\ UNCHANGED <<variant, sheet, clock, pre, log, started>>

\* updateGoogleSheet 541-581: credentials, client, Values.Get of Sheet2!A2:A
\* and the scan for the ticker.
sheetGet(p, fault) ==
    /\ variant = "sheet"
    /\ req[p].pc = "get"
    /\ IF fault = "sheet"
       THEN Respond(p, req[p], RespSheetFailed, "sheet")
       ELSE /\ req' = [req EXCEPT ![p].pc = "write",
                                  ![p].rowIndex = findRow(sheet, req[p].alert.ticker, 1)]
            /\ UNCHANGED resp
    /\ UNCHANGED <<variant, store, sheet, clock, pre, log, started>>

\* updateGoogleSheet 583-602: Values.Append when the scan found no row,
\* Values.Update of the row found otherwise; then the 200 of handleWebhook.
sheetWrite(p, fault) ==
    /\ variant = "sheet"
    /\ req[p].pc = "write"
    /\ IF fault = "sheet"
       THEN /\ Respond(p, req[p], RespSheetFailed, "sheet")
            /\ UNCHANGED sheet
       ELSE /\ sheet' = IF req[p].rowIndex = -1
                        THEN AppendRow(sheet, req[p].rowData)
                        ELSE UpdateRow(sheet, req[p].rowIndex, req[p].rowData)
            /\ Respond(p, req[p], RespOK, "none")
    /\ UNCHANGED <<variant, store, clock, pre, log, started>>

(***************************************************************************)
(* src/main.go 507-528, updateIndicator 530-554 and updateGoogleSheet      *)
(* 556-583: the integer-signal build, a goroutine per request.  The        *)
(* request is at db.Exec, at the SELECT of momentum or at Values.Update,   *)
(* which goes to the fixed range Sheet1!A2:D2 with (ticker, momentum).     *)
(***************************************************************************)
\* 507-517 and 530-554: the body is decoded, the indicator is looked up in
\* the allow-list, db.Exec runs the upsert.
intUpdateIndicator(p, a, fault) ==
    /\ variant = "int"
    /\ Accept(p)
    /\ IF a.indicator \notin allowedIndicators("int")
       THEN /\ Respond(p, Req(p, "done", a), RespDbFailed, "invalid")
            /\ Recorded(EntryOf(Req(p, "done", a), "invalid", FALSE), store)
       ELSE IF fault = "db"
       THEN /\ Respond(p, Req(p, "done", a), RespDbFailed, "db")
            /\ Recorded(EntryOf(Req(p, "done", a), "db", FALSE), store)
       ELSE /\ req' = [req EXCEPT ![p] = [Req(p, "query", a)
                                             EXCEPT !.merged = TRUE]]
            /\ Recorded(EntryOf(Req(p, "query", a), "none", TRUE),
                        upsertInt(store, a.ticker, a.indicator, a.signal))
            /\ UNCHANGED resp
    /\ UNCHANGED <<variant, sheet, clock>>

\* 557-561: SELECT momentum FROM securities WHERE ticker = ?.
intQueryRow(p) ==
    /\ variant = "int"
    /\ req[p].pc = "query"
    /\ LET t == req[p].alert.ticker
       IN  IF t \in DOMAIN store
           THEN /\ req' = [req EXCEPT ![p].pc = "write",
                              ![p].rowData = SheetRow(t, [momentum |-> store[t]["momentum"]])]
                /\ UNCHANGED resp
           ELSE Respond(p, req[p], RespSheetFailed, "sheet")
    /\ UNCHANGED <<variant, store, sheet, clock, pre, log, started>>

\* 563-582: credentials, client and Values.Update of Sheet1!A2:D2; then
\* the 200 of handleWebhook.
intValuesUpdate(p, fault) ==
    /\ variant = "int"
    /\ req[p].pc = "write"
    /\ IF fault = "sheet"
       THEN /\ Respond(p, req[p], RespSheetFailed, "sheet")
            /\ UNCHANGED sheet
       ELSE /\ sheet' = UpdateRow(sheet, 1, req[p].rowData)
            /\ Respond(p, req[p], RespOK, "none")
    /\ UNCHANGED <<variant, store, clock, pre, log, started>>

(***************************************************************************)
(* GET /delete?ticker=T (src/main.go 149-172 and 417-444,                  *)
(* src/unnamed/part_001 111-134, src/unnamed/part_002 180-207).  The       *)
(* builds of src/main.go 458-604 and src/unnamed/part_002 333-614 register *)
(* no such route.                                                          *)
(***************************************************************************)
DeleteBuilds == {"signal", "part001", "multi", "single"}

\* The ticker of the query string: one the POST handlers store, one they
\* never store in this specification, and the empty one.
DeleteTickers == SeqTickers \cup {"MSFT", ""}

RespMissingTicker == Response(StatusBadRequest, "Missing ticker query parameter")
\* The text of the driver's error follows the colon.
RespDeleteFailed(t) ==
    Response(StatusInternalServerError, "Error deleting ticker " \o t \o ": ")
RespDeleted(t) == Response(StatusOK, "Ticker " \o t \o " deleted successfully")

\* Mutant of deleteTicker: DELETE FROM securities with no WHERE clause.
deleteTickerAll(s, t) == [x \in {} |-> s[x]]

\* Mutant of deleteTicker: the statement matches no row.
deleteTickerNone(s, t) == s

\* DELETE FROM securities WHERE ticker = ?
deleteTicker(s, t) == [x \in (DOMAIN s) \ {t} |-> s[x]]

\* The ticker is checked first; then one call to the database, which waits
\* while a transaction has written.
\* The history is about the POST handlers and starts afresh.
handleDelete(t, fault) ==
    /\ variant \in DeleteBuilds
    /\ IF t = ""
       THEN /\ resp' = RespMissingTicker
            /\ store' = store
       ELSE /\ \A q \in Procs : ~req[q].tx.open
            /\ IF fault = "db"
               THEN /\ resp' = RespDeleteFailed(t)
                    /\ store' = store
               ELSE /\ resp' = RespDeleted(t)
                    /\ store' = deleteTicker(store, t)
    /\ pre' = store
    /\ log' = <<>>
    /\ UNCHANGED <<variant, sheet, clock, req, started>>

Next ==
    \/ Tick
    \/ \E t \in DeleteTickers, f \in LocalFaults : handleDelete(t, f)
    \/ handleWebhookInvalidPayload
    \/ \E a \in SignalAlerts, f \in LocalFaults : handleWebhookSignal(a, f)
    \/ \E a \in SignalAlerts, f \in LocalFaults : handleWebhookPart001(a, f)
    \/ \E p \in Procs, a \in MultiAlerts, f \in LocalFaults : updateIndicatorsBegin(p, a, f)
    \/ \E p \in Procs, f \in LocalFaults : updateIndicatorsExec(p, f)
    \/ \E p \in Procs, f \in {"none", "commit"} : updateIndicatorsCommit(p, f)
    \/ \E p \in Procs, a \in SingleAlerts : updateIndicatorBegin(p, a)
    \/ \E p \in Procs, f \in LocalFaults : updateIndicatorExec(p, f)
    \/ \E p \in Procs, a \in IntAlerts, f \in LocalFaults : intUpdateIndicator(p, a, f)
    \/ \E p \in Procs : intQueryRow(p)
    \/ \E p \in Procs, f \in {"none", "sheet"} : intValuesUpdate(p, f)

Spec == Init /\ [][Next]_vars

(***************************************************************************)
(* Requests for two tickers against the build with the sheet mirror        *)
(* (src/unnamed/part_002 333-614), the sheet empty at the start.           *)
(***************************************************************************)
ConcAlerts ==
    [ticker : SeqTickers, indicator : {"sma_strategy"}, signal : SignalInputs]
    \cup [ticker : Tickers \ SeqTickers, indicator : {"sma_strategy"}, signal : {"buy"}]
    \cup [ticker : SeqTickers, indicator : {"bogus"}, signal : {"buy"}]

InitConc ==
    /\ variant = "sheet"
    /\ store = <<>>
    /\ sheet = <<>>
    /\ clock = 0
    /\ resp = NoResponse
    /\ pre = <<>>
    /\ log = <<>>
    /\ req = [p \in Procs |-> IdleReq]
    /\ started = 0

NextConc ==
    \/ Tick
    \/ handleWebhookInvalidPayload
    \/ \E p \in Procs, a \in ConcAlerts : updateIndicatorBegin(p, a)
    \/ \E p \in Procs, f \in LocalFaults : updateIndicatorExec(p, f)
    \/ \E p \in Procs : sheetQueryRow(p)
    \/ \E p \in Procs, f \in {"none", "sheet"} : sheetGet(p, f)
    \/ \E p \in Procs, f \in {"none", "sheet"} : sheetWrite(p, f)

SpecConc == InitConc /\ [][NextConc]_vars

(***************************************************************************)
(* Requests against the build with the sheet mirror (src/unnamed/part_002  *)
(* 333-614) and a sheet that may hold rows already, with a ticker that is  *)
(* empty and one that is spelled differently.                              *)
(***************************************************************************)
SheetAlerts ==
    {[ticker |-> t, indicator |-> "sma_strategy", signal |-> "buy"] :
        t \in SeqTickers \cup {"", " aapl"}}
    \cup {[ticker |-> t, indicator |-> "bogus", signal |-> "buy"] : t \in SeqTickers}

\* A row written for a record that held no signal yet.
OldRow(t) ==
    SheetRow(t, [c \in Columns("sheet") |-> IF c = "date_updated" THEN 0 ELSE ""])

InitialSheets == {<<>>, <<OldRow("MSFT"), OldRow("AAPL")>>}

InitSheet ==
    /\ variant = "sheet"
    /\ store = <<>>
    /\ sheet \in InitialSheets
    /\ clock = 0
    /\ resp = NoResponse
    /\ pre = <<>>
    /\ log = <<>>
    /\ req = [p \in Procs |-> IdleReq]
    /\ started = 0

NextSheet ==
    \/ Tick
    \/ handleWebhookInvalidPayload
    \/ \E p \in Procs, a \in SheetAlerts : updateIndicatorBegin(p, a)
    \/ \E p \in Procs, f \in LocalFaults : updateIndicatorExec(p, f)
    \/ \E p \in Procs : sheetQueryRow(p)
    \/ \E p \in Procs, f \in {"none", "sheet"} : sheetGet(p, f)
    \/ \E p \in Procs, f \in {"none", "sheet"} : sheetWrite(p, f)

SpecSheet == InitSheet /\ [][NextSheet]_vars

\* The last request whose statement ran or that was turned away, and the
\* last request merged before it.
Last == log[Len(log)]
Prev == log[1]
HasLast == Len(log) >= 1
HasPrev == Len(log) = 2

TypeOK == clock \in 0..MaxClock /\ started \in 0..MaxRequests

(***************************************************************************)
(* Helpers for the statement of the properties.                            *)
(***************************************************************************)
\* The indicator columns an alert of build v writes.
Touched(v, a) ==
    CASE v \in SignalBuilds -> {"signal"}
      [] v = "multi" ->
           {a.signals[i].indicator : i \in DOMAIN a.signals} \cap allowedIndicators(v)
      [] OTHER -> {a.indicator} \cap allowedIndicators(v)

\* The upsert the handler of build v runs for alert a at time now.
ApplyAlert(v, s, a, now) ==
    CASE v = "signal" ->
           upsertSignal(s, a.ticker, a.signal, priceTargetOf(a.apt), now)
      [] v = "part001" ->
           upsertSignal(s, a.ticker, a.signal, float64Of(a.apt), now)
      [] v = "multi" ->
           upsertMulti(s, a.ticker, signalValues(a.signals, defaultValues), now)
      [] v = "int" -> upsertInt(s, a.ticker, a.indicator, a.signal)
      [] OTHER -> upsertSingle(v, s, a.ticker, a.indicator, a.signal, now)

\* The table with the record of ticker t put back to what entry e found.
Before(e) ==
    IF e.existed THEN Put(store, e.ticker, e.before)
    ELSE [x \in (DOMAIN store) \ {e.ticker} |-> store[x]]

\* The last two merges were for the same ticker, one right after the other.
TwoMerges == HasPrev /\ Last.merged /\ Prev.ticker = Last.ticker

\* The request of Last arrived when no other request was being served and
\* after the request of Prev: the two were handled one after the other.
InSequence == HasPrev /\ Last.quiet /\ Prev.id <= Last.id

\* The last statement that ran is that of the request of goroutine p.
LastIsOf(p) == HasLast /\ Last.id = req[p].id /\ Last.alert = req[p].alert

(***************************************************************************)
(* C1.  Two updates of one ticker that touch disjoint sets of indicator    *)
(* columns give the same value in every indicator column whichever is      *)
(* applied first.  The table holds the result of Prev then Last; the other *)
(* order is replayed from the record Prev found.                           *)
(***************************************************************************)
C1_DisjointUpdatesCommute ==
    (/\ TwoMerges
     /\ Touched(variant, Prev.alert) # {}
     /\ Touched(variant, Last.alert) # {}
     /\ Touched(variant, Prev.alert) \cap Touched(variant, Last.alert) = {})
    => LET t == Last.ticker
           swapped == ApplyAlert(variant,
                                 ApplyAlert(variant, Before(Prev), Last.alert, Prev.now),
                                 Prev.alert, Last.now)
       IN  \A c \in IndicatorColumns(variant) : store[t][c] = swapped[t][c]

(***************************************************************************)
(* C2.  Multi-signal build: a merge for a ticker that already has a record *)
(* leaves every indicator column that no recognized entry of the update    *)
(* names at the value stored before.                                       *)
(***************************************************************************)
C2_UnmentionedColumnsKept ==
    (variant = "multi" /\ HasLast /\ Last.merged /\ Last.existed)
    => \A c \in allowedIndicators("multi") \ Touched("multi", Last.alert) :
           store[Last.ticker][c] = Last.before[c]

(***************************************************************************)
(* C5.  The same update applied twice in a row: after the second           *)
(* application every column but the last-modified one holds what it held   *)
(* after the first, and the last-modified column holds the time of the     *)
(* second.                                                                 *)
(***************************************************************************)
SameUpdateTwice == TwoMerges /\ Prev.alert = Last.alert

C5_Idempotent_AllBuilds ==
    (SameUpdateTwice /\ InSequence)
    => /\ \A c \in Columns(variant) \ {LastModifiedColumn} :
              store[Last.ticker][c] = Last.before[c]
       /\ \A c \in TimestampColumns(variant) : store[Last.ticker][c] = Last.now

(***************************************************************************)
(* C6.  Single-indicator build: an update for indicator A that creates the *)
(* record, then an update for another indicator B of the same ticker: the  *)
(* record holds A's value in A, B's value in B, "" in every other          *)
(* indicator column, and date_updated was written by each of the two calls *)
(* with the time that call had read.                                       *)
(***************************************************************************)
C6_Scenario ==
    /\ variant = "single"
    /\ TwoMerges
    /\ ~Prev.existed
    /\ Prev.alert.indicator # Last.alert.indicator

C6_TwoIndicators ==
    C6_Scenario
    => LET r == store[Last.ticker]
           A == Prev.alert.indicator
           B == Last.alert.indicator
       IN  /\ r[A] = Prev.alert.signal
           /\ r[B] = Last.alert.signal
           /\ \A c \in allowedIndicators("single") \ {A, B} : r[c] = ""
           /\ Last.before["date_updated"] = Prev.now
           /\ r["date_updated"] = Last.now

\* sma_strategy=buy then occ=sell on AAPL, one request after the other and
\* a second apart.
C6_Witness ==
    /\ C6_Scenario /\ InSequence
    /\ Last.ticker = "AAPL"
    /\ Prev.alert.indicator = "sma_strategy" /\ Prev.alert.signal = "buy"
    /\ Last.alert.indicator = "occ" /\ Last.alert.signal = "sell"
    /\ Last.now > Prev.now

(***************************************************************************)
(* C7.  Signal builds: an update whose signal equals the stored signal     *)
(* leaves a timestamp of the record at its prior value (the time since     *)
(* when the signal holds) while the last-modified column takes the time of *)
(* the update.                                                             *)
(***************************************************************************)
C7_TransitionTimestampKept ==
    (variant \in SignalBuilds /\ HasLast /\ Last.merged /\ Last.existed
        /\ Last.alert.signal = Last.before["signal"])
    => /\ \E c \in TimestampColumns(variant) :
              store[Last.ticker][c] = Last.before[c]
       /\ store[Last.ticker][LastModifiedColumn] = Last.now

(***************************************************************************)
(* C8.  Signal builds: an update whose signal differs from the stored one, *)
(* or that creates the record, leaves the time of the update in the        *)
(* transition timestamp of the record, a column other than the             *)
(* last-modified one.                                                      *)
(***************************************************************************)
SignalChanged ==
    /\ variant \in SignalBuilds /\ HasLast /\ Last.merged
    /\ (Last.existed => Last.alert.signal # Last.before["signal"])

C8_TransitionTimestampSet ==
    SignalChanged
    => \E c \in TransitionColumns(variant) : store[Last.ticker][c] = Last.now

(***************************************************************************)
(* C10.  Single-indicator builds: a POST naming an indicator outside the   *)
(* allow-list is answered with a 4xx status and leaves the table as it     *)
(* was.                                                                    *)
(***************************************************************************)
UnknownIndicatorPosted ==
    /\ variant = "single"
    /\ HasLast
    /\ Last.fault # "decode"
    /\ Last.alert.indicator \notin allowedIndicators(variant)

C10_UnknownIndicatorRejected ==
    UnknownIndicatorPosted
    => /\ resp.code >= 400 /\ resp.code <= 499
       /\ store = pre

(***************************************************************************)
(* C3.  Concurrent reconciliations of one ticker that has no row in the    *)
(* sheet: when all of them have returned and one has succeeded, the sheet  *)
(* holds exactly one row for the ticker.                                   *)
(***************************************************************************)
RowCount(sh, t) == Cardinality({i \in DOMAIN sh : sh[i].ticker = t})

AllDone == \A p \in Procs : req[p].pc = "done"

Reconciled(t) ==
    \E p \in Procs : req[p].alert.ticker = t /\ req[p].resp = RespOK

C3_OneRowPerTicker ==
    AllDone => \A t \in Tickers : Reconciled(t) => RowCount(sheet, t) = 1

(***************************************************************************)
(* C4.  No two reconciliations of the same ticker are at the same time     *)
(* between their scan of the sheet and their write to it.                  *)
(***************************************************************************)
ScannedNotWritten(p) == req[p].pc = "write"

C4_ReconcileSerialized ==
    \A p, q \in Procs :
        (p # q /\ ScannedNotWritten(p) /\ ScannedNotWritten(q))
        => req[p].alert.ticker # req[q].alert.ticker

(***************************************************************************)
(* C9.  After a merge the last-modified column of the ticker holds the     *)
(* time the handler took for that merge, and that time is not earlier than *)
(* the value the column held before.                                       *)
(***************************************************************************)
C9_LastModifiedAdvances ==
    (HasLast /\ Last.merged /\ LastModifiedColumn \in Columns(variant))
    => /\ store[Last.ticker][LastModifiedColumn] = Last.now
       /\ Last.existed =>
              store[Last.ticker][LastModifiedColumn] >= Last.before[LastModifiedColumn]

(***************************************************************************)
(* C11.  Multi-signal build: a payload that holds an entry with an unknown *)
(* indicator and whose statement and commit succeed is answered with 200,  *)
(* and every allowed indicator named in the payload holds, in the record,  *)
(* the signal of the last entry that names it.                             *)
(***************************************************************************)
\* The signal of the last entry of the list that names indicator c.
lastSignal(sigs, c) ==
    LET idx == {i \in DOMAIN sigs : sigs[i].indicator = c}
        m == CHOOSE i \in idx : \A j \in idx : j <= i
    IN  sigs[m].signal

HasUnknownEntry(a) ==
    \E i \in DOMAIN a.signals : a.signals[i].indicator \notin allowedIndicators("multi")

UnknownEntryPosted ==
    /\ variant = "multi" /\ HasLast
    /\ Last.fault = "none"
    /\ HasUnknownEntry(Last.alert)

C11_UnknownEntrySkipped ==
    UnknownEntryPosted
    => /\ resp = RespOK
       /\ Last.ticker \in DOMAIN store
       /\ \A c \in Touched("multi", Last.alert) :
              store[Last.ticker][c] = lastSignal(Last.alert.signals, c)

\* bogus=buy came first in the list, sma_strategy=buy after it.
C11_Witness ==
    /\ UnknownEntryPosted
    /\ Last.alert.signals = <<[indicator |-> "bogus", signal |-> "buy"],
                              [indicator |-> "sma_strategy", signal |-> "buy"]>>
    /\ store[Last.ticker]["sma_strategy"] = "buy"

(***************************************************************************)
(* C12.  Signal builds: a POST with a ticker and a signal whose            *)
(* analystPriceTarget is null, "", "false" or another token that is not a  *)
(* number, and for which the database does not fail, is answered with 200  *)
(* and leaves SQL NULL in analyst_price_target of the record.              *)
(***************************************************************************)
NonNumericTargetPosted ==
    /\ variant \in SignalBuilds /\ HasLast
    /\ Last.fault # "db"
    /\ Last.alert.ticker # "" /\ Last.alert.signal # ""
    /\ Last.alert.apt.kind \in NonNumericKinds

C12_MalformedTargetAbsent ==
    NonNumericTargetPosted
    => /\ resp.code = StatusOK
       /\ Last.ticker \in DOMAIN store
       /\ ~store[Last.ticker]["analyst_price_target"].Valid
       /\ store[Last.ticker]["signal"] = Last.alert.signal

(***************************************************************************)
(* C13.  Signal builds: an update for a ticker that has a record and whose *)
(* payload has no analystPriceTarget leaves analyst_price_target of the    *)
(* record at the value stored before.                                      *)
(***************************************************************************)
C13_AbsentTargetKept ==
    (/\ variant \in SignalBuilds /\ HasLast
     /\ Last.merged /\ Last.existed
     /\ Last.alert.apt.kind = "absent")
    => store[Last.ticker]["analyst_price_target"] = Last.before["analyst_price_target"]

(***************************************************************************)
(* C14.  The table never holds a record whose ticker is "", and a POST     *)
(* whose ticker is "" or missing is answered with an error status and      *)
(* leaves the table as it was.                                             *)
(***************************************************************************)
C14_NoEmptyTicker ==
    /\ "" \notin DOMAIN store
    /\ (HasLast /\ Last.ticker = "") => (resp.code >= 400 /\ store = pre)

(***************************************************************************)
(* C19.  Multi-signal build: a request whose Begin, statement or commit    *)
(* fails leaves the whole table as it was (no column of the record         *)
(* changed, no record created); a request that commits leaves every        *)
(* allowed indicator it names at the value it gave and date_updated at the *)
(* time it had read, all in the step of the commit; and the statement of   *)
(* a transaction that is still open has changed nothing in the table.      *)
(***************************************************************************)
MultiFailed ==
    /\ variant = "multi" /\ HasLast
    /\ Last.fault \in {"db", "commit"}

\* The step is the statement of a transaction that stays open after it.
StatementStep ==
    \E p \in Procs : req[p].pc = "exec" /\ req'[p].pc = "commit"

BatchOutcome ==
    /\ MultiFailed => (store = pre /\ ~Last.merged /\ resp.code = StatusInternalServerError)
    /\ (variant = "multi" /\ HasLast /\ Last.merged)
       => /\ \A c \in Touched("multi", Last.alert) :
                 store[Last.ticker][c] = lastSignal(Last.alert.signals, c)
          /\ store[Last.ticker]["date_updated"] = Last.now

C19_BatchAtomic ==
    /\ [](BatchOutcome)
    /\ [][(variant = "multi" /\ StatementStep) => store' = store]_vars

\* The commit of an update with two allowed pairs failed, for a ticker that
\* has a record, which is as before.
C19_Witness ==
    /\ MultiFailed
    /\ Last.fault = "commit"
    /\ Cardinality(Touched("multi", Last.alert)) = 2
    /\ Last.existed
    /\ \E c \in Touched("multi", Last.alert) :
           store[Last.ticker][c] # lastSignal(Last.alert.signals, c)

(***************************************************************************)
(* C15.  Build with the sheet mirror: the step in which a sheet call of a  *)
(* request fails leaves the table as it is; the record of a ticker changes *)
(* only in the upsert of a request for that ticker; and as long as no      *)
(* other statement has run since the upsert of a request whose sheet call  *)
(* failed, the table is the table before that upsert with the upsert       *)
(* applied.                                                                *)
(***************************************************************************)
SyncFailedAfterMerge(p) ==
    /\ variant = "sheet"
    /\ req[p].pc = "done"
    /\ req[p].fault = "sheet" /\ req[p].merged

MergeKept ==
    \A p \in Procs :
        (SyncFailedAfterMerge(p) /\ LastIsOf(p))
        => LET a == req[p].alert
           IN  /\ store = ApplyAlert("sheet", pre, a, Last.now)
               /\ store[a.ticker][a.indicator] = a.signal
               /\ store[a.ticker]["date_updated"] = Last.now

SyncFailureStep ==
    \E p \in Procs : req[p].resp # RespSheetFailed /\ req'[p].resp = RespSheetFailed

MergeStepOf(p) == req[p].pc = "exec" /\ req'[p].pc = "query"

RecordsKeptBySync ==
    /\ SyncFailureStep => store' = store
    /\ \A t \in DOMAIN store :
           RecordOf(store', t) # store[t]
           => \E p \in Procs : MergeStepOf(p) /\ req[p].alert.ticker = t

C15_MergeKeptOnSyncFailure == [](MergeKept) /\ [][RecordsKeptBySync]_vars

\* The failed sync was that of the request that created the record, and
\* the clock has moved on since.
C15_Witness ==
    \E p \in Procs :
        /\ SyncFailedAfterMerge(p) /\ LastIsOf(p)
        /\ ~Last.existed
        /\ clock > Last.now
        /\ req[p].alert.ticker \in DOMAIN store

(***************************************************************************)
(* C16.  Build with the sheet mirror: the response to a request whose      *)
(* upsert went through and whose sheet call failed is none of the          *)
(* responses given on success, on a failed upsert or on a rejected         *)
(* payload, and that response is given only when the upsert went through.  *)
(***************************************************************************)
C16_SyncFailureDistinct ==
    \A p \in Procs :
        (variant = "sheet" /\ req[p].pc = "done")
        => /\ SyncFailedAfterMerge(p)
              => req[p].resp \notin {RespOK, RespDbFailed, RespInvalidIndicator,
                                     RespInvalidPayload}
           /\ req[p].resp = RespSheetFailed => (req[p].merged /\ req[p].fault = "sheet")
           /\ req[p].fault = "db" => (req[p].resp = RespDbFailed /\ ~req[p].merged)

\* The request updated a record that existed and got the sheet failure.
C16_Witness ==
    \E p \in Procs :
        /\ SyncFailedAfterMerge(p) /\ LastIsOf(p)
        /\ Last.existed
        /\ req[p].resp.body = "Failed to update Google Sheet"
        /\ store # pre

(***************************************************************************)
(* C20.  Build with the sheet mirror, a request that does not overlap any  *)
(* other: if it is answered 200 it has overwritten the row whose first     *)
(* cell is its ticker, leaving the other rows and the number of rows as    *)
(* they were, if there was such a row, and has appended one row otherwise; *)
(* after it no two rows have the same first cell.                          *)
(***************************************************************************)
HasRowFor(sh, t) == \E i \in DOMAIN sh : sh[i].ticker = t

\* No request was being served when that of p arrived, and none has
\* arrived since.
NonOverlapping(p) ==
    /\ req[p].quiet
    /\ started = req[p].id
    /\ \A q \in Procs \ {p} : Free(q)

ReconciledStep(p) ==
    /\ variant = "sheet"
    /\ req[p].pc = "write" /\ req'[p].resp = RespOK
    /\ NonOverlapping(p)

InPlaceOrAppend(t) ==
    /\ IF HasRowFor(sheet, t)
       THEN /\ Len(sheet') = Len(sheet)
            /\ \E i \in DOMAIN sheet :
                   /\ sheet[i].ticker = t
                   /\ sheet'[i] = SheetRow(t, store'[t])
                   /\ \A j \in DOMAIN sheet : j # i => sheet'[j] = sheet[j]
       ELSE sheet' = Append(sheet, SheetRow(t, store'[t]))
    /\ \A i, j \in DOMAIN sheet' : sheet'[i].ticker = sheet'[j].ticker => i = j

C20_InPlaceOrAppend ==
    [][\A p \in Procs : ReconciledStep(p) => InPlaceOrAppend(req[p].alert.ticker)]_vars

(***************************************************************************)
(* C17.  The table is keyed by ticker, so it holds at most one record per  *)
(* ticker; a request that merged leaves a record for its ticker and the    *)
(* tickers that had one before, no more and no fewer, and a request that   *)
(* did not merge leaves the set of tickers with a record as it was.        *)
(***************************************************************************)
Rows(s) == {[ticker |-> t, record |-> s[t]] : t \in DOMAIN s}

C17_OneRecordPerTicker ==
    /\ \A r1, r2 \in Rows(store) : r1.ticker = r2.ticker => r1 = r2
    /\ HasLast
       => IF Last.merged
          THEN /\ Cardinality({r \in Rows(store) : r.ticker = Last.ticker}) = 1
               /\ DOMAIN store = DOMAIN pre \cup {Last.ticker}
          ELSE DOMAIN store = DOMAIN pre

\* Two updates of the same indicator of one ticker, one after the other,
\* in the integer-signal build.
C17_Witness ==
    /\ variant = "int"
    /\ TwoMerges
    /\ ~Prev.existed /\ Last.existed
    /\ Prev.alert.indicator = Last.alert.indicator
    /\ Cardinality(Rows(store)) = 1

(***************************************************************************)
(* C18.  Builds with one indicator per alert: a POST with a ticker and an  *)
(* allowed indicator, whose upsert and whose sheet call (where the build   *)
(* has one) go through, is answered 200 "Webhook processed successfully",  *)
(* whether the ticker had a record or not.                                 *)
(***************************************************************************)
AllowedIndicatorPosted(p) ==
    /\ variant \in {"single", "int"}
    /\ req[p].pc = "done"
    /\ req[p].fault = "none"
    /\ req[p].alert.ticker # ""
    /\ req[p].alert.indicator \in allowedIndicators(variant)

C18_SuccessResponse ==
    \A p \in Procs :
        AllowedIndicatorPosted(p)
        => /\ req[p].resp.code = StatusOK
           /\ req[p].resp.body = "Webhook processed successfully"
           /\ req[p].merged

\* The ticker had a record when the POST came.
C18_Witness ==
    \E p \in Procs :
        /\ AllowedIndicatorPosted(p) /\ LastIsOf(p)
        /\ variant = "single"
        /\ Last.existed
        /\ req[p].resp.code = StatusOK

(***************************************************************************)
(* C21.  Build with the sheet mirror: no two rows of the sheet have first  *)
(* cells that are equal after trimming the surrounding whitespace and      *)
(* folding the case.                                                       *)
(***************************************************************************)
\* The normal form the property speaks of: upper case, no surrounding
\* space, on the tickers of the model.
ToUpper(t) == IF t = " aapl" THEN " AAPL" ELSE IF t = "aapl" THEN "AAPL" ELSE t

TrimSpace(t) == IF t = " AAPL" THEN "AAPL" ELSE IF t = " aapl" THEN "aapl" ELSE t

normalizedTicker(t) == TrimSpace(ToUpper(t))

C21_NormalizedIdentity ==
    variant = "sheet"
    => \A i, j \in DOMAIN sheet :
           (/\ sheet[i].ticker # "" /\ sheet[j].ticker # ""
            /\ normalizedTicker(sheet[i].ticker) = normalizedTicker(sheet[j].ticker))
           => i = j

(***************************************************************************)
(* C22.  Concurrent requests: when every request has returned and every    *)
(* request for a ticker was answered 200, the row the scan finds for that  *)
(* ticker holds the values of the ticker's record.                         *)
(***************************************************************************)
AllReconciled(t) ==
    /\ \E p \in Procs : req[p].alert.ticker = t
    /\ \A p \in Procs : req[p].alert.ticker = t => req[p].resp = RespOK

C22_RowMatchesRecord ==
    AllDone
    => \A t \in Tickers :
           AllReconciled(t)
           => /\ findRow(sheet, t, 1) # -1
              /\ sheet[findRow(sheet, t, 1)].data = store[t]

(***************************************************************************)
(* C23.  Every record has the columns of the table and no other, and a     *)
(* request whose statement was built and run named, in the builds with one *)
(* indicator per alert, an indicator of the allow-list; in the multi-signal *)
(* build the values bound to the statement are those of the allow-list.    *)
(***************************************************************************)
StatementRun == HasLast /\ Last.fault \in {"none", "db", "commit"}

\* Goroutine p is at the statement of its request.
AtStatement(p) == req[p].pc \in {"exec", "commit"}

C23_AllowListOnly ==
    /\ \A t \in DOMAIN store : DOMAIN store[t] = Columns(variant)
    /\ (StatementRun /\ variant \in {"single", "int"})
       => Last.alert.indicator \in allowedIndicators(variant)
    /\ \A p \in Procs :
           (AtStatement(p) /\ variant = "single")
           => req[p].alert.indicator \in allowedIndicators(variant)
    /\ (StatementRun /\ variant = "multi")
       => DOMAIN signalValues(Last.alert.signals, defaultValues) = allowedIndicators("multi")

\* An indicator outside the allow-list was posted for a ticker that has a
\* record, and the table is as before.
C23_Witness ==
    /\ variant = "single" /\ HasLast
    /\ Last.fault = "invalid"
    /\ Last.alert.indicator = "bogus"
    /\ Last.existed
    /\ store = pre

(***************************************************************************)
(* C24.  Concurrent requests: a step changes the record of a ticker, or    *)
(* creates or removes it, only if it is the upsert of a request for that   *)
(* ticker; the records of all other tickers are as before the step.        *)
(***************************************************************************)
OtherRecordsKept ==
    \A t \in Tickers :
        RecordOf(store', t) # RecordOf(store, t)
        => \E p \in Procs : MergeStepOf(p) /\ req[p].alert.ticker = t

C24_OtherTickersUntouched == [][OtherRecordsKept]_vars

\* A request for MSFT has upserted while AAPL had a record, and the record
\* of AAPL is what the request for AAPL wrote.
C24_Witness ==
    /\ variant = "sheet" /\ HasLast
    /\ Last.ticker = "MSFT"
    /\ "AAPL" \in DOMAIN store /\ "MSFT" \in DOMAIN store
    /\ \E p \in Procs :
           /\ req[p].alert.ticker = "AAPL" /\ req[p].merged
           /\ store["AAPL"][req[p].alert.indicator] = req[p].alert.signal
           /\ req[p].pc \in {"query", "get", "write"}
           /\ store["AAPL"]["date_updated"] = req[p].now
           /\ req[p].now # Last.now

(***************************************************************************)
(* C25.  Concurrent requests: a request is at the record read, the scan or *)
(* the write of the reconciliation, or holds what it read there, only if   *)
(* its upsert went through; a request answered with the invalid-indicator  *)
(* or the database error has read nothing for the sheet; and the sheet     *)
(* changes only in the write step of a request whose upsert went through.  *)
(***************************************************************************)
InReconcile(p) ==
    \/ req[p].pc \in {"query", "get", "write"}
    \/ req[p].rowData # NoRowData
    \/ req[p].rowIndex # -1

SyncOnlyAfterMerge ==
    \A p \in Procs :
        /\ InReconcile(p) => req[p].merged
        /\ req[p].resp \in {RespInvalidIndicator, RespDbFailed} => ~InReconcile(p)
        /\ req[p].resp \in {RespOK, RespSheetFailed} => req[p].merged

\* A step of updateGoogleSheet is taken by a request whose upsert went
\* through, and the sheet changes only in the write step of such a request.
SheetWrittenAfterMerge ==
    /\ \A p \in Procs :
           (req[p].pc \in {"query", "get", "write"} /\ req'[p] # req[p]) => req[p].merged
    /\ sheet' # sheet => \E p \in Procs : req[p].pc = "write" /\ req[p].merged

C25_SyncAfterMerge == [](SyncOnlyAfterMerge) /\ [][SheetWrittenAfterMerge]_vars

\* One request was turned away for its indicator and one for the database,
\* and the sheet is empty.
C25_Witness ==
    /\ variant = "sheet"
    /\ \E p, q \in Procs :
           /\ req[p].resp = RespInvalidIndicator
           /\ req[q].resp = RespDbFailed
    /\ sheet = <<>>

(***************************************************************************)
(* C27.  A record leaves the table only in a step that answers "Ticker T   *)
(* deleted successfully" for the ticker T of that record: no POST handler  *)
(* and no delete of another ticker removes it.                             *)
(***************************************************************************)
RemovedOnlyByDelete ==
    \A t \in DOMAIN store :
        t \notin DOMAIN store' => resp' = RespDeleted(t)

C27_RecordKeptUntilDeleted == [][RemovedOnlyByDelete]_vars

\* The record an alert created for AAPL has just been deleted.
C27_Witness ==
    /\ variant = "signal"
    /\ resp = RespDeleted("AAPL")
    /\ "AAPL" \in DOMAIN pre /\ pre["AAPL"]["signal"] \in SignalInputs
    /\ "AAPL" \notin DOMAIN store

(***************************************************************************)
(* C29.  After a delete of ticker T that answered success there is no      *)
(* record of T, every other record is as it was before the delete, and     *)
(* the table is as it was when T had no record.                            *)
(***************************************************************************)
C29_DeleteFrame ==
    \A t \in DeleteTickers :
        resp = RespDeleted(t)
        => /\ t \notin DOMAIN store
           /\ DOMAIN store = (DOMAIN pre) \ {t}
           /\ \A u \in DOMAIN store : store[u] = pre[u]
           /\ t \notin DOMAIN pre => store = pre

\* AAPL has been deleted while the table held a second record, which is
\* still there.
C29_Witness ==
    /\ variant = "single"
    /\ resp = RespDeleted("AAPL")
    /\ DOMAIN pre = {"AAPL", ""}
    /\ DOMAIN store = {""}
    /\ store[""] = pre[""]

\* A delete of a ticker that has no record answered success and the table,
\* which holds a record, is as before.
C29_AbsentWitness ==
    /\ resp = RespDeleted("MSFT")
    /\ "AAPL" \in DOMAIN store
    /\ store = pre

(***************************************************************************)
(* C28.  Integer-signal build: the upsert of an alert leaves momentum at   *)
(* what it was (0 for a new record) plus the signal of the alert, whatever *)
(* indicator the alert names; the named indicator column holds the signal  *)
(* and the other indicator columns are as before (0 for a new record).     *)
(* With the upsert before it, which found no record, momentum is the sum   *)
(* of the two signals.                                                     *)
(***************************************************************************)
IntMerged == variant = "int" /\ HasLast /\ Last.merged

momentumBefore(e) == IF e.existed THEN e.before["momentum"] ELSE 0

C28_MomentumIsSum ==
    IntMerged
    => LET t == Last.ticker
           a == Last.alert
       IN  /\ store[t]["momentum"] = momentumBefore(Last) + a.signal
           /\ store[t][a.indicator] = a.signal
           /\ \A c \in allowedIndicators("int") \ {a.indicator} :
                  store[t][c] = IF Last.existed THEN Last.before[c] ELSE 0
           /\ (HasPrev /\ Prev.ticker = t /\ ~Prev.existed)
              => store[t]["momentum"] = Prev.alert.signal + a.signal

\* The second of two upserts for AAPL with different indicators and
\* signals that are not 0: momentum is their sum.
C28_Witness ==
    /\ IntMerged /\ HasPrev
    /\ Prev.ticker = "AAPL" /\ Last.ticker = "AAPL"
    /\ ~Prev.existed
    /\ Prev.alert.indicator # Last.alert.indicator
    /\ Prev.alert.signal = 2 /\ Last.alert.signal = 1
    /\ store["AAPL"]["momentum"] = 3
    /\ store["AAPL"][Prev.alert.indicator] = 2

(***************************************************************************)
(* C26.  Every call for one normalized ticker gets the same lock, so the   *)
(* sections that run under it exclude each other: no two requests whose    *)
(* tickers have the same normal form are inside updateGoogleSheet, from    *)
(* its first call to its write, at the same time.                          *)
(***************************************************************************)
InUpdateGoogleSheet(p) == req[p].pc \in {"query", "get", "write"}

C26_OneLockPerTicker ==
    \A p, q \in Procs :
        (p # q /\ InUpdateGoogleSheet(p) /\ InUpdateGoogleSheet(q))
        => normalizedTicker(req[p].alert.ticker) # normalizedTicker(req[q].alert.ticker)

====
